---- MODULE Spec2Model ----
(***************************************************************************)
(* Flappy Dragon (src/flappy/src/main.rs): the game state machine driven   *)
(* by bracket-lib's main_loop, one action per tick handler.                *)
(*                                                                         *)
(* f32 values.  Player::velocity is an f32.  Every velocity the program    *)
(* can hold is an integer multiple of 2^-26 (0.2f32 = 13421773 * 2^-26,    *)
(* 2.0 = 2^27 * 2^-26), so a velocity is modelled by that integer and the  *)
(* f32 addition by integer addition followed by IEEE-754 rounding to a     *)
(* 24-bit significand, ties to even (F32Round).  State::frame_time and     *)
(* BTerm::frame_time_ms are f32 too; the elapsed times drawn here are      *)
(* whole milliseconds below 2^24, on which f32 addition is exact.          *)
(***************************************************************************)
EXTENDS Integers, FiniteSets, Sequences, TLC

VARIABLES
    player,      \* State::player: [x, y, velocity]
    frame_time,  \* State::frame_time
    obstacle,    \* State::obstacle: [x, gap_y, size]
    mode,        \* State::mode: "Menu", "Playing" or "End"
    score,       \* State::score
    ctx,         \* the BTerm context: [key, frame_time_ms, quitting]
    result,      \* the value returned by a direct call of hit_obstacle, as
                 \* a one-element sequence; empty before the call and in
                 \* the game's own runs
    runs         \* two runs of the frame-time gate of State::play side by
                 \* side: [a, b], each [x, frame_time, elapsed] with elapsed
                 \* the time delivered to it so far; idle in the game's own
                 \* runs

vars == <<player, frame_time, obstacle, mode, score, ctx, result, runs>>
game == <<player, frame_time, obstacle, mode, score>>

(* ---------------------------------------------------------------- bounds *)

\* Ticks stop being delivered once player.x has reached MaxX.
MaxX == 25
\* The same, for the runs that meet the first obstacle (SpecRun), that pass
\* twenty obstacles (SpecPilot) and that never flap (SpecNoFlap).
MaxRunX == 82
MaxPilotX == 1700
MaxNoFlapX == 120
MaxTimingX == 25
\* The time (ms) delivered to each of the two runs of SpecPair.
MaxPairMs == 200
\* The scores the obstacles handed to hit_obstacle are built with.
MaxHitScore == 19
\* The two elapsed times (ms) the shell delivers: one below and one above
\* FRAME_DURATION.
ShortMs == 30
LongMs == 61
\* A frame several times longer than FRAME_DURATION (SpecTiming).
HugeMs == 185
\* Obstacle::new's random gap centre is drawn from every GapStride-th value
\* of its range, and the range's last value.
GapStride == 15

(* ------------------------------------------------------------- constants *)

SCREEN_WIDTH == 80
SCREEN_HEIGHT == 50
FRAME_DURATION == 60

\* One unit of the velocity encoding is 2^-26.
F32Unit == 2^26
\* 0.2 as an f32 is 13421773 * 2^-26 (0x3E4CCCCD).
Gravity == 13421773
TerminalVelocity == 2 * F32Unit
FlapVelocity == -2 * F32Unit

PlayerStartX == 5
PlayerStartY == 25
GapYLow == 10
GapYHigh == 40
MinGapSize == 2
BaseGapSize == 20

(* ------------------------------------------------------------ f32 helpers *)

Abs(n) == IF n < 0 THEN -n ELSE n

\* The spacing of f32 values around magnitude a (in units of 2^-26): a
\* 24-bit significand.
F32Quantum(a) ==
    IF a < 2^24 THEN 1
    ELSE IF a < 2^25 THEN 2
    ELSE IF a < 2^26 THEN 4
    ELSE IF a < 2^27 THEN 8
    ELSE IF a < 2^28 THEN 16
    ELSE 32

\* Round to nearest representable f32, ties to even significand.
F32Round(n) ==
    LET a == Abs(n)
        q == F32Quantum(a)
        lo == a \div q
        r == a % q
        up == IF 2 * r > q THEN 1
              ELSE IF 2 * r < q THEN 0
              ELSE lo % 2
        m == (lo + up) * q
    IN IF n < 0 THEN -m ELSE m

F32Add(a, b) == F32Round(a + b)

\* `f as i32`: truncation toward zero.
F32AsI32(v) == IF v < 0 THEN -((-v) \div F32Unit) ELSE v \div F32Unit

(* ----------------------------------------------------------------- Player *)

PlayerNew(x, y) == [x |-> x, y |-> y, velocity |-> 0]

\* Mutant: y is not clamped at 0.
gravity_and_move_no_clamp(p) ==
    LET v == IF p.velocity < TerminalVelocity
             THEN F32Add(p.velocity, Gravity)
             ELSE p.velocity
    IN [x |-> p.x + 1, y |-> p.y + F32AsI32(v), velocity |-> v]

\* Mutant: the player moves two columns per physics step.
gravity_and_move_two_columns(p) ==
    LET v == IF p.velocity < TerminalVelocity
             THEN F32Add(p.velocity, Gravity)
             ELSE p.velocity
        y == p.y + F32AsI32(v)
    IN [x |-> p.x + 2, y |-> IF y < 0 THEN 0 ELSE y, velocity |-> v]

\* Mutant: gravity is not applied.
gravity_and_move_no_gravity(p) ==
    LET y == p.y + F32AsI32(p.velocity)
    IN [x |-> p.x + 1, y |-> IF y < 0 THEN 0 ELSE y, velocity |-> p.velocity]

\* Mutant: y moves by the velocity held before gravity is applied.
gravity_and_move_stale_velocity(p) ==
    LET v == IF p.velocity < TerminalVelocity
             THEN F32Add(p.velocity, Gravity)
             ELSE p.velocity
        y == p.y + F32AsI32(p.velocity)
    IN [x |-> p.x + 1, y |-> IF y < 0 THEN 0 ELSE y, velocity |-> v]

gravity_and_move(p) ==
    LET v == IF p.velocity < TerminalVelocity
             THEN F32Add(p.velocity, Gravity)
             ELSE p.velocity
        y == p.y + F32AsI32(v)
    IN [x |-> p.x + 1, y |-> IF y < 0 THEN 0 ELSE y, velocity |-> v]

\* Mutant: a flap adds -2.0 to the velocity instead of setting it.
flap_additive(p) ==
    [p EXCEPT !.velocity = F32Add(p.velocity, FlapVelocity)]

flap(p) == [p EXCEPT !.velocity = FlapVelocity]

(* --------------------------------------------------------------- Obstacle *)

Max(a, b) == IF a > b THEN a ELSE b

\* random.range(10, 40): a value of 10..39.
GapCenters ==
    {g \in GapYLow..(GapYHigh - 1) : (g - GapYLow) % GapStride = 0}
        \cup {GapYHigh - 1}

\* Mutant: the floor of the gap size is forgotten.
GapSize_no_floor(s) == BaseGapSize - s

\* Mutant: gaps start two rows wider.
GapSize_wide(s) == Max(MinGapSize, BaseGapSize + 2 - s)

GapSize(s) == Max(MinGapSize, BaseGapSize - s)

\* Obstacle::new(x, score), with g the value the generator returns.
ObstacleNew(x, s, g) == [x |-> x, gap_y |-> g, size |-> GapSize(s)]

\* Mutant: the edges of the gap band count as a hit.
hit_obstacle_inclusive(o, p) ==
    LET half_size == o.size \div 2
    IN p.x = o.x /\ (p.y <= o.gap_y - half_size \/ p.y >= o.gap_y + half_size)

hit_obstacle(o, p) ==
    LET half_size == o.size \div 2
        does_x_match == p.x = o.x
        player_above_gap == p.y < o.gap_y - half_size
        player_below_gap == p.y > o.gap_y + half_size
    IN does_x_match /\ (player_above_gap \/ player_below_gap)

(* ------------------------------------------------------------------ State *)

\* A run of the frame-time gate at the start of a game.
FreshRun == [x |-> PlayerStartX, frame_time |-> 0, elapsed |-> 0]

Keys == {"None", "Space", "P", "Q", "A"}
ElapsedMs == {ShortMs, LongMs}

\* State::new, and the BTerm context before the first frame.
Init ==
    /\ player = PlayerNew(PlayerStartX, PlayerStartY)
    /\ frame_time = 0
    /\ \E g \in GapCenters : obstacle = ObstacleNew(SCREEN_WIDTH, 0, g)
    /\ mode = "Menu"
    /\ score = 0
    /\ ctx = [key |-> "None", frame_time_ms |-> 0, quitting |-> FALSE]
    /\ result = <<>>
    /\ runs = [a |-> FreshRun, b |-> FreshRun]

\* Mutant: the score survives a restart.
restart_keeps_score ==
    /\ player' = PlayerNew(PlayerStartX, PlayerStartY)
    /\ frame_time' = 0
    /\ \E g \in GapCenters : obstacle' = ObstacleNew(SCREEN_WIDTH, 0, g)
    /\ mode' = "Playing"
    /\ score' = score

restart ==
    /\ player' = PlayerNew(PlayerStartX, PlayerStartY)
    /\ frame_time' = 0
    /\ \E g \in GapCenters : obstacle' = ObstacleNew(SCREEN_WIDTH, 0, g)
    /\ mode' = "Playing"
    /\ score' = 0

\* The shell's part of a frame: it stores the polled key and the elapsed
\* time in the context and calls tick, unless quitting was requested.
Frame(key, ms, quit) ==
    /\ ~ctx.quitting
    /\ ctx' = [key |-> key, frame_time_ms |-> ms, quitting |-> quit]
    /\ UNCHANGED <<result, runs>>

\* Mutant: every key but Q starts the game.
main_menu_any_key(key, ms) ==
    /\ mode = "Menu"
    /\ ctx' = [key |-> key, frame_time_ms |-> ms, quitting |-> key = "Q"]
    /\ ~ctx.quitting
    /\ UNCHANGED <<result, runs>>
    /\ IF key \notin {"None", "Q"}
       THEN /\ player' = PlayerNew(PlayerStartX, PlayerStartY)
            /\ frame_time' = 0
            /\ \E g \in GapCenters :
                   obstacle' = ObstacleNew(SCREEN_WIDTH, 0, g)
            /\ mode' = "Playing"
            /\ score' = 0
       ELSE UNCHANGED <<player, frame_time, obstacle, mode, score>>

main_menu(key, ms) ==
    /\ mode = "Menu"
    /\ Frame(key, ms, key = "Q")
    /\ IF key = "P" THEN restart
       ELSE UNCHANGED game

\* Mutant: the bottom row of the screen already ends the game.
game_over_at_height(p, o) ==
    LET half_size == o.size \div 2
    IN \/ p.y >= SCREEN_HEIGHT
       \/ p.x = o.x /\ (p.y < o.gap_y - half_size \/ p.y > o.gap_y + half_size)

\* The terminal condition at the end of State::play.
game_over(p, o) == p.y > SCREEN_HEIGHT \/ hit_obstacle(o, p)

\* Mutant: the physics step already fires at FRAME_DURATION.
play_step_at_threshold(key, ms) ==
    /\ mode = "Playing"
    /\ Frame(key, ms, FALSE)
    /\ LET ft == frame_time + ms
           step == ft >= FRAME_DURATION
           p1 == IF step THEN gravity_and_move(player) ELSE player
           p2 == IF key = "Space" THEN flap(p1) ELSE p1
           passed == p2.x > obstacle.x
           s2 == IF passed THEN score + 1 ELSE score
       IN /\ frame_time' = (IF step THEN 0 ELSE ft)
          /\ player' = p2
          /\ score' = s2
          /\ IF passed
             THEN \E g \in GapCenters :
                      obstacle' = ObstacleNew(p2.x + SCREEN_WIDTH, s2, g)
             ELSE obstacle' = obstacle
          /\ mode' = IF game_over(p2, obstacle') THEN "End" ELSE "Playing"

\* Mutant: the new obstacle is built before the score is incremented.
play_old_score(key, ms) ==
    /\ mode = "Playing"
    /\ Frame(key, ms, FALSE)
    /\ LET ft == frame_time + ms
           step == ft > FRAME_DURATION
           p1 == IF step THEN gravity_and_move(player) ELSE player
           p2 == IF key = "Space" THEN flap(p1) ELSE p1
           passed == p2.x > obstacle.x
           s2 == IF passed THEN score + 1 ELSE score
       IN /\ frame_time' = (IF step THEN 0 ELSE ft)
          /\ player' = p2
          /\ score' = s2
          /\ IF passed
             THEN \E g \in GapCenters :
                      obstacle' = ObstacleNew(p2.x + SCREEN_WIDTH, score, g)
             ELSE obstacle' = obstacle
          /\ mode' = IF game_over(p2, obstacle') THEN "End" ELSE "Playing"

\* Mutant: the new obstacle is placed relative to the old obstacle.
play_from_obstacle(key, ms) ==
    /\ mode = "Playing"
    /\ Frame(key, ms, FALSE)
    /\ LET ft == frame_time + ms
           step == ft > FRAME_DURATION
           p1 == IF step THEN gravity_and_move(player) ELSE player
           p2 == IF key = "Space" THEN flap(p1) ELSE p1
           passed == p2.x > obstacle.x
           s2 == IF passed THEN score + 1 ELSE score
       IN /\ frame_time' = (IF step THEN 0 ELSE ft)
          /\ player' = p2
          /\ score' = s2
          /\ IF passed
             THEN \E g \in GapCenters :
                      obstacle' = ObstacleNew(obstacle.x + SCREEN_WIDTH, s2, g)
             ELSE obstacle' = obstacle
          /\ mode' = IF game_over(p2, obstacle') THEN "End" ELSE "Playing"

play(key, ms) ==
    /\ mode = "Playing"
    /\ Frame(key, ms, FALSE)
    /\ LET ft == frame_time + ms
           step == ft > FRAME_DURATION
           p1 == IF step THEN gravity_and_move(player) ELSE player
           p2 == IF key = "Space" THEN flap(p1) ELSE p1
           passed == p2.x > obstacle.x
           s2 == IF passed THEN score + 1 ELSE score
       IN /\ frame_time' = (IF step THEN 0 ELSE ft)
          /\ player' = p2
          /\ score' = s2
          /\ IF passed
             THEN \E g \in GapCenters :
                      obstacle' = ObstacleNew(p2.x + SCREEN_WIDTH, s2, g)
             ELSE obstacle' = obstacle
          /\ mode' = IF game_over(p2, obstacle') THEN "End" ELSE "Playing"

\* Mutant: Q on the game-over screen does not ask to quit.
dead_ignores_quit(key, ms) ==
    /\ mode = "End"
    /\ Frame(key, ms, FALSE)
    /\ IF key = "P" THEN restart
       ELSE UNCHANGED game

\* Mutant: every key but Q restarts the game from the game-over screen.
dead_any_key(key, ms) ==
    /\ mode = "End"
    /\ Frame(key, ms, key = "Q")
    /\ IF key \notin {"None", "Q"} THEN restart
       ELSE UNCHANGED game

dead(key, ms) ==
    /\ mode = "End"
    /\ Frame(key, ms, key = "Q")
    /\ IF key = "P" THEN restart
       ELSE UNCHANGED game

\* One frame of bracket-lib's main_loop: State::tick dispatches on the mode.
MenuFrame == \E key \in Keys, ms \in ElapsedMs : main_menu(key, ms)

PlayFrame ==
    /\ player.x < MaxX
    /\ \E key \in Keys, ms \in ElapsedMs : play(key, ms)

DeadFrame == \E key \in Keys, ms \in ElapsedMs : dead(key, ms)

Next == MenuFrame \/ PlayFrame \/ DeadFrame

Spec == Init /\ [][Next]_vars

\* Runs long enough to meet obstacles: every frame is longer than
\* FRAME_DURATION, and the player only ever presses play (outside a run) or
\* flap (inside one).
RunMenuFrame == main_menu("P", LongMs)

RunPlayFrame ==
    /\ player.x < MaxRunX
    /\ \E key \in {"None", "Space"} : play(key, LongMs)

RunDeadFrame == dead("P", LongMs)

NextRun == RunMenuFrame \/ RunPlayFrame \/ RunDeadFrame

SpecRun == Init /\ [][NextRun]_vars

\* Runs over many obstacles: a player who flaps exactly when below the
\* centre of the gap ahead.
PilotKey == IF player.y > obstacle.gap_y THEN "Space" ELSE "None"

PilotMenuFrame == main_menu("P", LongMs)

PilotPlayFrame ==
    /\ player.x < MaxPilotX
    /\ play(PilotKey, LongMs)

PilotDeadFrame == dead("P", LongMs)

NextPilot == PilotMenuFrame \/ PilotPlayFrame \/ PilotDeadFrame

SpecPilot == Init /\ [][NextPilot]_vars

\* The same runs, with every key and both elapsed times offered on the menu
\* and on the game-over screen.
NextPilotKeys == MenuFrame \/ PilotPlayFrame \/ DeadFrame

SpecPilotKeys == Init /\ [][NextPilotKeys]_vars

\* Runs in which the flap key is never pressed.  The shell keeps delivering
\* frames, so a frame of a run in progress is eventually handled.
NoFlapKeys == Keys \ {"Space"}

NoFlapMenuFrame ==
    \E key \in NoFlapKeys, ms \in ElapsedMs : main_menu(key, ms)

NoFlapPlayFrame ==
    /\ player.x < MaxNoFlapX
    /\ \E key \in NoFlapKeys, ms \in ElapsedMs : play(key, ms)

NoFlapDeadFrame ==
    \E key \in NoFlapKeys, ms \in ElapsedMs : dead(key, ms)

NextNoFlap == NoFlapMenuFrame \/ NoFlapPlayFrame \/ NoFlapDeadFrame

SpecNoFlap ==
    Init /\ [][NextNoFlap]_vars /\ WF_vars(NoFlapPlayFrame)

\* Runs whose frames are short, just over FRAME_DURATION, or several times
\* FRAME_DURATION long.
TimingMs == {ShortMs, LongMs, HugeMs}

TimingMenuFrame == \E ms \in TimingMs : main_menu("P", ms)

TimingPlayFrame ==
    /\ player.x < MaxTimingX
    /\ \E key \in {"None", "Space"}, ms \in TimingMs : play(key, ms)

TimingDeadFrame == \E ms \in TimingMs : dead("P", ms)

NextTiming == TimingMenuFrame \/ TimingPlayFrame \/ TimingDeadFrame

SpecTiming == Init /\ [][NextTiming]_vars

\* The frame-time gate of State::play on its own: the elapsed time is added
\* to the accumulator, and if the sum exceeds FRAME_DURATION the accumulator
\* is reset and one physics step moves the player one column.
accumulate(r, ms) ==
    LET ft == r.frame_time + ms
    IN IF ft > FRAME_DURATION
       THEN [x |-> r.x + 1, frame_time |-> 0, elapsed |-> r.elapsed + ms]
       ELSE [x |-> r.x, frame_time |-> ft, elapsed |-> r.elapsed + ms]

\* Two runs in progress, each handed its own sequence of frames.
InitPair ==
    /\ player = PlayerNew(PlayerStartX, PlayerStartY)
    /\ frame_time = 0
    /\ \E g \in GapCenters : obstacle = ObstacleNew(SCREEN_WIDTH, 0, g)
    /\ mode = "Playing"
    /\ score = 0
    /\ ctx = [key |-> "P", frame_time_ms |-> 0, quitting |-> FALSE]
    /\ result = <<>>
    /\ runs = [a |-> FreshRun, b |-> FreshRun]

PairFrameA ==
    \E ms \in ElapsedMs :
        /\ runs.a.elapsed + ms <= MaxPairMs
        /\ runs' = [runs EXCEPT !.a = accumulate(@, ms)]
        /\ UNCHANGED <<game, ctx, result>>

PairFrameB ==
    \E ms \in ElapsedMs :
        /\ runs.b.elapsed + ms <= MaxPairMs
        /\ runs' = [runs EXCEPT !.b = accumulate(@, ms)]
        /\ UNCHANGED <<game, ctx, result>>

NextPair == PairFrameA \/ PairFrameB

SpecPair == InitPair /\ [][NextPair]_vars

\* hit_obstacle as a function: a player and an obstacle drawn from the
\* positions and sizes around an obstacle's column, and one call.
HitXs == (SCREEN_WIDTH - 1)..(SCREEN_WIDTH + 1)
HitYs == 0..(SCREEN_HEIGHT + 2)

InitHit ==
    /\ score \in 0..MaxHitScore
    /\ \E x \in HitXs, y \in HitYs : player = PlayerNew(x, y)
    /\ \E g \in GapYLow..(GapYHigh - 1) :
           obstacle = ObstacleNew(SCREEN_WIDTH, score, g)
    /\ frame_time = 0
    /\ mode = "Playing"
    /\ ctx = [key |-> "None", frame_time_ms |-> 0, quitting |-> FALSE]
    /\ result = <<>>
    /\ runs = [a |-> FreshRun, b |-> FreshRun]

CallHit ==
    /\ result = <<>>
    /\ result' = <<hit_obstacle(obstacle, player)>>
    /\ UNCHANGED <<game, ctx, runs>>

NextHit == CallHit

SpecHit == InitHit /\ [][NextHit]_vars

(* ----------------------------------------------------------------- claims *)

\* C1: the game starts in Menu, and the mode only ever changes from Menu to
\* Playing on P, from End to Playing on P, and from Playing to End; Menu is
\* never re-entered and never goes directly to End.
C1_ModeStep ==
    mode' # mode =>
        \/ mode = "Menu" /\ mode' = "Playing" /\ ctx'.key = "P"
        \/ mode = "End" /\ mode' = "Playing" /\ ctx'.key = "P"
        \/ mode = "Playing" /\ mode' = "End"

C1_ModeTransitions == mode = "Menu" /\ [][C1_ModeStep]_vars

\* A run that went from Menu to Playing and from there to End.
C1_Witness == mode = "End" /\ player.y > SCREEN_HEIGHT /\ score = 0

\* C2: a tick in Playing ends in mode End exactly when, at the end of the
\* tick, player.y > 50 or the player is in the obstacle's column outside its
\* gap band; y = 50 without a collision stays Playing.
C2_CollidesAfter ==
    /\ player'.x = obstacle'.x
    /\ \/ player'.y < obstacle'.gap_y - (obstacle'.size \div 2)
       \/ player'.y > obstacle'.gap_y + (obstacle'.size \div 2)

C2_EndIff ==
    [][mode = "Playing" =>
           (mode' = "End" <=> (player'.y > SCREEN_HEIGHT \/ C2_CollidesAfter))]_vars

\* A run ended by a collision with the player still on screen.
C2_Witness ==
    mode = "End" /\ player.y <= SCREEN_HEIGHT /\ player.x = obstacle.x

\* C3: hit_obstacle returns true exactly when the player is in the obstacle's
\* column and strictly above gap_y - size/2 or strictly below gap_y + size/2
\* (integer half); it returns false in every other column.
C3_Collides ==
    result # <<>> =>
        /\ result[1] <=>
               /\ player.x = obstacle.x
               /\ \/ player.y < obstacle.gap_y - (obstacle.size \div 2)
                  \/ player.y > obstacle.gap_y + (obstacle.size \div 2)
        /\ player.x # obstacle.x => ~result[1]

\* A hit one row below the band of an obstacle of odd size 19 (half 9).
C3_Witness ==
    /\ result = <<TRUE>>
    /\ obstacle.size = 19
    /\ player.y = obstacle.gap_y + 10

\* C4: in every reachable state the obstacle's gap size is max(2, 20 - score);
\* it is never below 2 and does not grow when the score grows.
C4_Expected == IF 20 - score < 2 THEN 2 ELSE 20 - score

C4_GapSize ==
    /\ [](obstacle.size = C4_Expected /\ obstacle.size >= 2)
    /\ [][score' > score => obstacle'.size <= obstacle.size]_vars

\* An obstacle built at a score where the floor applies.
C4_Witness ==
    /\ mode = "Playing"
    /\ score >= 19
    /\ obstacle.size = 2
    /\ obstacle.x > SCREEN_WIDTH

\* C5: P in Menu or End yields mode Playing, score 0, the player at (5, 25)
\* with velocity 0.0, frame_time 0 and an obstacle at x = 80 of gap size 20,
\* whatever the state before.
C5_Restart ==
    [][(mode \in {"Menu", "End"} /\ ctx'.key = "P") =>
           /\ mode' = "Playing"
           /\ score' = 0
           /\ player' = [x |-> 5, y |-> 25, velocity |-> 0]
           /\ frame_time' = 0
           /\ obstacle'.x = 80
           /\ obstacle'.size = 20
           /\ obstacle'.gap_y \in 10..39]_vars

\* The state right after a restart.
C5_Witness ==
    /\ mode = "Playing"
    /\ ctx.key = "P"
    /\ score = 0
    /\ player = [x |-> 5, y |-> 25, velocity |-> 0]
    /\ obstacle.size = 20

\* C6: in every reachable state the player's velocity is at most +2.0.
\* (Stated as claimed; the f32 sum 1.8000002 + 0.2 rounds to 2.0000002.)
C6_VelocityAtMostTerminal == player.velocity <= TerminalVelocity

\* C7: on every physics step without a flap the velocity grows by 0.2 (the
\* f32 addition) while it is below 2.0, and from then on it is 2.0 and stays
\* 2.0.  (Stated as claimed; the ladder ends at 2.0000002, not at 2.0.)
C7_NoFlapStep ==
    /\ mode = "Playing"
    /\ player'.x = player.x + 1
    /\ ctx'.key # "Space"

C7_GravityLadder ==
    [][C7_NoFlapStep =>
           IF player.velocity < TerminalVelocity
           THEN /\ player'.velocity = F32Add(player.velocity, Gravity)
                /\ player'.velocity <= TerminalVelocity
           ELSE /\ player.velocity = TerminalVelocity
                /\ player'.velocity = TerminalVelocity]_vars

\* C8: a Playing tick with the flap key ends with velocity -2.0, whether or
\* not the physics step fired in it and however many flap ticks precede it.
C8_FlapSetsVelocity ==
    [][(mode = "Playing" /\ ctx'.key = "Space") =>
           player'.velocity = -2 * F32Unit]_vars

\* A flap tick in which no physics step fired, after an earlier flap tick
\* (the accumulator holds two short frames).
C8_Witness ==
    /\ mode = "Playing"
    /\ ctx.key = "Space"
    /\ ctx.frame_time_ms = ShortMs
    /\ frame_time = 2 * ShortMs
    /\ player.velocity = -2 * F32Unit
    /\ player.x > PlayerStartX

\* C9: player.y is never negative.
C9_YNonNegative == player.y >= 0

\* The player at the top of the screen right after a physics step that moved
\* it upward.
C9_Witness ==
    /\ mode = "Playing"
    /\ player.y = 0
    /\ player.velocity <= -F32Unit
    /\ ctx.key = "None"

\* C10: in a run without flaps y never decreases from one tick to the next,
\* the run is over before 100 physics steps, it ends with y above the screen
\* height, and every run does end.
C10_FallsAndEnds ==
    /\ [][mode = "Playing" => player'.y >= player.y]_vars
    /\ [](mode = "Playing" => player.x - PlayerStartX < 100)
    /\ [](mode = "End" => player.y > SCREEN_HEIGHT)
    /\ ((mode = "Playing") ~> (mode = "End"))

\* The end of such a run: fallen below the screen at terminal speed.
C10_Witness ==
    /\ mode = "End"
    /\ player.y > SCREEN_HEIGHT
    /\ player.velocity >= TerminalVelocity
    /\ player.x - PlayerStartX <= 100

\* C11: quitting is raised exactly by a tick with Q in Menu or End, and that
\* tick changes no game field; Q in Playing raises no quitting and changes
\* the mode only if the tick's own terminal condition holds.
C11_TerminalAfter ==
    \/ player'.y > 50
    \/ /\ player'.x = obstacle'.x
       /\ \/ player'.y < obstacle'.gap_y - (obstacle'.size \div 2)
          \/ player'.y > obstacle'.gap_y + (obstacle'.size \div 2)

C11_QuitStep ==
    /\ ctx'.quitting <=> (mode \in {"Menu", "End"} /\ ctx'.key = "Q")
    /\ ctx'.quitting => UNCHANGED game
    /\ (mode = "Playing" /\ ctx'.key = "Q") =>
           /\ ~ctx'.quitting
           /\ mode' # mode => C11_TerminalAfter

C11_QuitSignal == [][C11_QuitStep]_vars

\* Quit asked for on the game-over screen, the run's final state kept.
C11_Witness ==
    /\ ctx.quitting
    /\ ctx.key = "Q"
    /\ mode = "End"
    /\ player.y > SCREEN_HEIGHT

\* C12: a Playing tick that ends with the player in the obstacle's column
\* and inside the gap band stays Playing; the tick in which player.x exceeds
\* obstacle.x adds exactly 1 to the score and replaces the obstacle by one at
\* player.x + 80 built with the new score; no other Playing tick changes the
\* score or the obstacle.
C12_InBandAfter ==
    /\ player'.x = obstacle'.x
    /\ player'.y >= obstacle'.gap_y - (obstacle'.size \div 2)
    /\ player'.y <= obstacle'.gap_y + (obstacle'.size \div 2)

C12_PlayStep ==
    /\ C12_InBandAfter => mode' = "Playing"
    /\ IF player'.x > obstacle.x
       THEN /\ score' = score + 1
            /\ obstacle'.x = player'.x + 80
            /\ obstacle'.size = (IF 20 - score' < 2 THEN 2 ELSE 20 - score')
            /\ obstacle'.gap_y \in 10..39
       ELSE /\ score' = score
            /\ obstacle' = obstacle

C12_PassAndScore == [][mode = "Playing" => C12_PlayStep]_vars

\* The tick in which the first obstacle was passed.
C12_Witness ==
    /\ mode = "Playing"
    /\ score = 1
    /\ player.x = 81
    /\ obstacle.x = 161
    /\ obstacle.size = 19

\* C13: a Playing tick adds the elapsed time to the accumulator; if the sum
\* is strictly greater than 60 it performs exactly one physics step and
\* resets the accumulator to 0, otherwise it performs none and keeps the sum.
C13_TickStep ==
    LET sum == frame_time + ctx'.frame_time_ms
    IN IF sum > 60
       THEN /\ player'.x = player.x + 1
            /\ frame_time' = 0
       ELSE /\ player'.x = player.x
            /\ player'.y = player.y
            /\ frame_time' = sum

C13_OneStepPerTick == [][mode = "Playing" => C13_TickStep]_vars

\* Two short frames after a step: the accumulator is exactly 60 and no step
\* has fired.
C13_Witness ==
    /\ mode = "Playing"
    /\ frame_time = 60
    /\ ctx.frame_time_ms = ShortMs
    /\ player.x > PlayerStartX

\* C14: two runs that have been handed the same total elapsed time, split
\* into frames differently, have performed the same number of physics steps
\* (the same player.x).  (Stated as claimed; the gate drops the remainder of
\* the accumulator and steps at most once per frame.)
C14_SameTimeSameSteps ==
    runs.a.elapsed = runs.b.elapsed => runs.a.x = runs.b.x

\* C15: player.x grows by exactly 1 in a tick with a physics step and is
\* unchanged in any other tick of a run; every obstacle is built at an x
\* greater than player.x; and an obstacle is replaced only in a tick that
\* starts with the player in its column, still Playing (the collision test
\* of the previous tick was made against it there).
C15_PlayStep ==
    /\ player'.x = (IF frame_time + ctx'.frame_time_ms > 60
                    THEN player.x + 1 ELSE player.x)
    /\ obstacle' # obstacle => player.x = obstacle.x

C15_NoSkip ==
    /\ [](player.x <= obstacle.x)
    /\ [][obstacle' # obstacle => obstacle'.x > player'.x]_vars
    /\ [][mode = "Playing" => C15_PlayStep]_vars

\* The player in the column of a later obstacle, inside its gap.
C15_Witness ==
    /\ mode = "Playing"
    /\ score >= 1
    /\ player.x = obstacle.x

\* C16: for every obstacle, the number of rows y at which a player in the
\* obstacle's column does not collide equals the obstacle's gap size.
\* (Stated as claimed; the band gap_y - size/2 .. gap_y + size/2 has
\* 2 * (size/2) + 1 rows.)
C16_PassRows ==
    {y \in HitYs :
        ~hit_obstacle(obstacle, [x |-> obstacle.x, y |-> y, velocity |-> 0])}

C16_BandWidth == Cardinality(C16_PassRows) = obstacle.size

\* C17: a physics step applies gravity first (only below 2.0), then adds
\* the updated velocity truncated toward zero to y, then x + 1, then clamps
\* y at 0; so y is unchanged when the updated velocity is strictly between
\* -1.0 and 1.0, y rises by at most 1 per step (also right after a flap) and
\* falls by at most 2 per step.
C17_Step ==
    LET v1 == IF player.velocity < 2 * F32Unit
              THEN F32Round(player.velocity + Gravity)
              ELSE player.velocity
        y1 == player.y + F32AsI32(v1)
    IN /\ player'.x = player.x + 1
       /\ player'.y = (IF y1 < 0 THEN 0 ELSE y1)
       /\ ctx'.key # "Space" => player'.velocity = v1
       /\ (-F32Unit < v1 /\ v1 < F32Unit) => player'.y = player.y
       /\ player'.y >= player.y - 1
       /\ player'.y <= player.y + 2

C17_StepOrder ==
    [][(mode = "Playing" /\ frame_time + ctx'.frame_time_ms > 60)
          => C17_Step]_vars

\* The step right after a flap has run with the player at the top row.
C17_Witness ==
    /\ mode = "Playing"
    /\ player.velocity = F32Round(Gravity - 2 * F32Unit)
    /\ player.y = 0

\* C18: a tick in mode Menu or End whose key is not P (no key, Q, Space or
\* any other key, with any elapsed time) leaves player, obstacle, score,
\* frame-time accumulator and mode unchanged; the score of the finished run
\* stays as it is on the game-over screen.
C18_IdleStep ==
    (mode \in {"Menu", "End"} /\ ctx'.key # "P") =>
        /\ player' = player
        /\ obstacle' = obstacle
        /\ score' = score
        /\ frame_time' = frame_time
        /\ mode' = mode

C18_OnlyPlayingAdvances == [][C18_IdleStep]_vars

\* A game-over screen with a positive score has handled a key other than P.
C18_Witness ==
    /\ mode = "End"
    /\ score >= 1
    /\ ctx.key = "A"
    /\ ctx.frame_time_ms = LongMs

\* C19: at the end of every tick of a run (mode Playing or End), the
\* active obstacle stands at x = 80 + 81 * score and is never behind the
\* player; the score is the number of obstacles moved past since restart.
C19_ObstacleAhead ==
    mode \in {"Playing", "End"} =>
        /\ obstacle.x = 80 + 81 * score
        /\ player.x <= obstacle.x

\* A run has moved past several obstacles and just had one replaced.
C19_Witness ==
    /\ mode = "Playing"
    /\ score = 3
    /\ player.x = obstacle.x - 80

\* C20: for every obstacle that can be constructed (gap centre 10..39,
\* size max(2, 20 - score)), the whole gap band lies on screen:
\* gap_y - size/2 >= 0 and gap_y + size/2 <= 49, every row at which a player
\* in the obstacle's column passes is an on-screen row, and there is at least
\* one such row.
C20_BandOnScreen ==
    LET half == obstacle.size \div 2
        rows == 0..49
    IN /\ obstacle.gap_y - half >= 0
       /\ obstacle.gap_y + half <= 49
       /\ \E y \in rows :
              ~hit_obstacle(obstacle, [x |-> obstacle.x, y |-> y, velocity |-> 0])
       /\ (result = <<FALSE>> /\ player.x = obstacle.x) => player.y \in rows

\* The widest gap at the lowest centre: a pass on the last on-screen row.
C20_Witness ==
    /\ result = <<FALSE>>
    /\ player.x = obstacle.x
    /\ player.y = 49
    /\ obstacle.gap_y = 39
    /\ obstacle.size = 20

====
